---- MODULE Spec2Model ----
(***************************************************************************)
(* Recommendation pipeline of the Agrinex backend: the gazetteer           *)
(* (map_location_to_coords), the weather gateway (get_openmeteo_weather),  *)
(* the irrigation advisor (recommend_irrigation and its weather facade)    *)
(* and the crop ranking of CropService.recommend_crops.                    *)
(*                                                                         *)
(* Representation.  A Python str is a sequence of one-character strings,   *)
(* so that strip() and lower() are computed character by character.        *)
(* Floats are fixed-point integers: millimetres, hours, mm/h, degrees      *)
(* Celsius, percent and moisture fractions in hundredths (Scale), and      *)
(* geographic coordinates in ten-thousandths of a degree.  A Python dict   *)
(* is a function from key strings to values.                               *)
(***************************************************************************)
EXTENDS Integers, Sequences, FiniteSets, TLC

VARIABLES
    pc,       \* position of the call being executed
    req,      \* arguments of the call
    coords,   \* value returned by map_location_to_coords
    weather,  \* snapshot returned by get_openmeteo_weather
    http,     \* the exchange with the forecast provider, None before it
    clf,      \* what the classifier was given and did in this call, None before
    core,     \* dict returned by recommend_irrigation
    result,   \* value returned to the caller
    sent,     \* the HTTP requests issued to the forecast provider, in order
    store,    \* the writes attempted on the document store, in order
    peer      \* the frame of a concurrent request that is not running now

vars == <<pc, req, coords, weather, http, clf, core, result, sent, store, peer>>

\* Python's None
None == "None"

\* hundredths: 20.0 mm is 2000, 0.45 is 45
Scale == 100

(***************************************************************************)
(* str.strip() and str.lower()                                             *)
(***************************************************************************)
Whitespace == {" ", "\t", "\n", "\r"}

UpperToLower ==
    "A" :> "a" @@ "B" :> "b" @@ "C" :> "c" @@ "D" :> "d" @@ "E" :> "e" @@
    "F" :> "f" @@ "G" :> "g" @@ "H" :> "h" @@ "I" :> "i" @@ "J" :> "j" @@
    "K" :> "k" @@ "L" :> "l" @@ "M" :> "m" @@ "N" :> "n" @@ "O" :> "o" @@
    "P" :> "p" @@ "Q" :> "q" @@ "R" :> "r" @@ "S" :> "s" @@ "T" :> "t" @@
    "U" :> "u" @@ "V" :> "v" @@ "W" :> "w" @@ "X" :> "x" @@ "Y" :> "y" @@
    "Z" :> "z"

LowerChar(c) == IF c \in DOMAIN UpperToLower THEN UpperToLower[c] ELSE c

\* s.lower()
Lower(s) == [i \in 1..Len(s) |-> LowerChar(s[i])]

RECURSIVE LStrip(_)
LStrip(s) ==
    IF s # <<>> /\ Head(s) \in Whitespace THEN LStrip(Tail(s)) ELSE s

RECURSIVE RStrip(_)
RStrip(s) ==
    IF s # <<>> /\ s[Len(s)] \in Whitespace
    THEN RStrip(SubSeq(s, 1, Len(s) - 1))
    ELSE s

\* s.strip()
Strip(s) == RStrip(LStrip(s))

\* the characters of s as one string, the form of the keys of the tables
RECURSIVE Join(_)
Join(s) == IF s = <<>> THEN "" ELSE Head(s) \o Join(Tail(s))

(***************************************************************************)
(* weather_service.map_location_to_coords                                  *)
(***************************************************************************)
location_map ==
     <<"chhattisgarh", "durg">> :> <<211939, 812740>>
  @@ <<"chhattisgarh", "raipur">> :> <<212514, 816296>>
  @@ <<"chhattisgarh", "bilaspur">> :> <<220796, 821590>>
  @@ <<"chhattisgarh", "rajnandgaon">> :> <<225596, 813089>>
  @@ <<"maharashtra", "pune">> :> <<185204, 738567>>
  @@ <<"maharashtra", "mumbai">> :> <<190760, 728777>>
  @@ <<"maharashtra", "nagpur">> :> <<211458, 790882>>
  @@ <<"maharashtra", "aurangabad">> :> <<198762, 753433>>
  @@ <<"maharashtra", "nashik">> :> <<199975, 737898>>
  @@ <<"maharashtra", "kolhapur">> :> <<167050, 742433>>
  @@ <<"delhi", "delhi">> :> <<287041, 771025>>
  @@ <<"karnataka", "bangalore">> :> <<129716, 775946>>
  @@ <<"karnataka", "bengaluru">> :> <<129716, 775946>>
  @@ <<"karnataka", "belagavi">> :> <<158497, 744977>>
  @@ <<"karnataka", "belgaum">> :> <<158497, 744977>>
  @@ <<"karnataka", "ballari">> :> <<151400, 766200>>
  @@ <<"karnataka", "bellary">> :> <<151400, 766200>>
  @@ <<"karnataka", "dharwad">> :> <<154589, 751342>>
  @@ <<"karnataka", "dharwar">> :> <<154589, 751342>>
  @@ <<"karnataka", "hubballi">> :> <<153647, 751240>>
  @@ <<"karnataka", "hubli">> :> <<153647, 751240>>
  @@ <<"karnataka", "gulbarga">> :> <<173265, 764304>>
  @@ <<"karnataka", "kalaburagi">> :> <<173265, 764304>>
  @@ <<"karnataka", "tumkur">> :> <<132173, 771145>>
  @@ <<"karnataka", "tumkuru">> :> <<132173, 771145>>
  @@ <<"karnataka", "mysore">> :> <<122958, 766394>>
  @@ <<"karnataka", "mysuru">> :> <<122958, 766394>>
  @@ <<"karnataka", "mandya">> :> <<125353, 768970>>
  @@ <<"karnataka", "hassan">> :> <<133352, 759103>>
  @@ <<"karnataka", "chikmagalur">> :> <<133181, 757708>>
  @@ <<"karnataka", "kodagu">> :> <<123381, 757273>>
  @@ <<"karnataka", "coorg">> :> <<123381, 757273>>
  @@ <<"karnataka", "udupi">> :> <<133408, 747421>>
  @@ <<"karnataka", "dakshina kannada">> :> <<126689, 753692>>
  @@ <<"karnataka", "mangalore">> :> <<128658, 748440>>
  @@ <<"karnataka", "mangaluru">> :> <<128658, 748440>>
  @@ <<"karnataka", "uttara kannada">> :> <<144505, 746660>>
  @@ <<"karnataka", "chitradurga">> :> <<142267, 756760>>
  @@ <<"karnataka", "chikballapur">> :> <<134359, 777297>>
  @@ <<"karnataka", "kolar">> :> <<131359, 781304>>
  @@ <<"karnataka", "ramanagara">> :> <<127667, 772833>>
  @@ <<"karnataka", "davangere">> :> <<144667, 759167>>
  @@ <<"karnataka", "davanagere">> :> <<144667, 759167>>
  @@ <<"karnataka", "shimoga">> :> <<139299, 755681>>
  @@ <<"karnataka", "shivamogga">> :> <<139299, 755681>>
  @@ <<"karnataka", "vikarabad">> :> <<169891, 771331>>
  @@ <<"karnataka", "yadgir">> :> <<167669, 771391>>
  @@ <<"karnataka", "bagalkot">> :> <<161703, 756667>>
  @@ <<"karnataka", "bijapur">> :> <<168302, 757053>>
  @@ <<"karnataka", "vijayapura">> :> <<168302, 757053>>
  @@ <<"tamil nadu", "chennai">> :> <<130827, 802707>>
  @@ <<"tamil nadu", "coimbatore">> :> <<110168, 769558>>
  @@ <<"tamil nadu", "madurai">> :> <<99252, 781198>>
  @@ <<"tamil nadu", "salem">> :> <<116643, 781460>>
  @@ <<"tamil nadu", "tiruppur">> :> <<113889, 773411>>
  @@ <<"tamil nadu", "erode">> :> <<113919, 777172>>
  @@ <<"tamil nadu", "trichy">> :> <<107905, 787047>>
  @@ <<"tamil nadu", "thanjavur">> :> <<107870, 791378>>
  @@ <<"telangana", "hyderabad">> :> <<173850, 784867>>
  @@ <<"telangana", "warangal">> :> <<179689, 795941>>
  @@ <<"telangana", "nizamabad">> :> <<192705, 780945>>
  @@ <<"andhra pradesh", "visakhapatnam">> :> <<176868, 832185>>
  @@ <<"andhra pradesh", "vijayawada">> :> <<165062, 806480>>
  @@ <<"andhra pradesh", "tirupati">> :> <<131939, 798941>>
  @@ <<"uttar pradesh", "lucknow">> :> <<268467, 809462>>
  @@ <<"uttar pradesh", "kanpur">> :> <<264499, 803319>>
  @@ <<"uttar pradesh", "varanasi">> :> <<253176, 829739>>
  @@ <<"uttar pradesh", "agra">> :> <<271767, 780081>>
  @@ <<"west bengal", "kolkata">> :> <<225726, 883639>>
  @@ <<"west bengal", "darjeeling">> :> <<270410, 882663>>
  @@ <<"west bengal", "siliguri">> :> <<267271, 883953>>
  @@ <<"gujarat", "surat">> :> <<211702, 728311>>
  @@ <<"gujarat", "ahmedabad">> :> <<230225, 725714>>
  @@ <<"gujarat", "vadodara">> :> <<223072, 731812>>
  @@ <<"gujarat", "rajkot">> :> <<223039, 708022>>
  @@ <<"rajasthan", "jaipur">> :> <<269124, 757873>>
  @@ <<"rajasthan", "jodhpur">> :> <<262389, 730243>>
  @@ <<"rajasthan", "ajmer">> :> <<264499, 746399>>
  @@ <<"rajasthan", "udaipur">> :> <<245854, 737125>>
  @@ <<"madhya pradesh", "bhopal">> :> <<232599, 774126>>
  @@ <<"madhya pradesh", "indore">> :> <<227196, 758577>>
  @@ <<"madhya pradesh", "gwalior">> :> <<262389, 781770>>
  @@ <<"madhya pradesh", "jabalpur">> :> <<231815, 799864>>
  @@ <<"bihar", "patna">> :> <<255941, 851376>>
  @@ <<"bihar", "gaya">> :> <<247955, 849994>>
  @@ <<"bihar", "bhagalpur">> :> <<252820, 864728>>
  @@ <<"haryana", "gurugram">> :> <<284595, 770266>>
  @@ <<"haryana", "faridabad">> :> <<284089, 773178>>
  @@ <<"haryana", "hisar">> :> <<291461, 757337>>
  @@ <<"punjab", "ludhiana">> :> <<309009, 758573>>
  @@ <<"punjab", "amritsar">> :> <<316340, 748723>>
  @@ <<"punjab", "jalandhar">> :> <<317260, 755762>>
  @@ <<"punjab", "chandigarh">> :> <<307333, 767794>>
  @@ <<"odisha", "bhubaneswar">> :> <<202961, 858245>>
  @@ <<"odisha", "cuttack">> :> <<204625, 858830>>
  @@ <<"odisha", "rourkela">> :> <<222271, 848537>>
  @@ <<"assam", "guwahati">> :> <<261863, 917668>>
  @@ <<"assam", "dibrugarh">> :> <<274728, 949119>>
  @@ <<"uttaranchal", "dehradun">> :> <<303165, 780322>>
  @@ <<"uttarakhand", "dehradun">> :> <<303165, 780322>>
  @@ <<"uttaranchal", "nainital">> :> <<293804, 794608>>
  @@ <<"uttarakhand", "nainital">> :> <<293804, 794608>>
  @@ <<"himachal pradesh", "shimla">> :> <<311048, 771734>>
  @@ <<"himachal pradesh", "manali">> :> <<322541, 771882>>
  @@ <<"himachal pradesh", "mandi">> :> <<315885, 769386>>
  @@ <<"meghalaya", "shillong">> :> <<255687, 918832>>
  @@ <<"tripura", "agartala">> :> <<238317, 912868>>
  @@ <<"mizoram", "aizawl">> :> <<237148, 927299>>
  @@ <<"nagaland", "kohima">> :> <<256782, 941115>>
  @@ <<"arunachal pradesh", "itanagar">> :> <<271767, 936926>>
  @@ <<"sikkim", "gangtok">> :> <<277022, 885630>>
  @@ <<"kerala", "thiruvananthapuram">> :> <<85241, 769366>>
  @@ <<"kerala", "kochi">> :> <<99312, 762673>>
  @@ <<"kerala", "kozhikode">> :> <<112588, 757804>>
  @@ <<"goa", "panaji">> :> <<152993, 741240>>
  @@ <<"goa", "margao">> :> <<152833, 739500>>
  @@ <<"puducherry", "pondicherry">> :> <<119416, 798084>>
  @@ <<"jammu and kashmir", "srinagar">> :> <<340837, 748070>>
  @@ <<"jammu and kashmir", "jammu">> :> <<327266, 758472>>
  @@ <<"ladakh", "leh">> :> <<341526, 775794>>
  @@ <<"ladakh", "kargil">> :> <<345543, 761119>>
  @@ <<"andaman and nicobar islands", "port blair">> :> <<117401, 927673>>

\* "Default: center of India"
DefaultCoords == <<200000, 780000>>

LocationKeyLowerOnly(state, district) ==
    <<Join(Lower(state)), Join(Lower(district))>>

LocationKey(state, district) ==
    <<Join(Lower(Strip(state))), Join(Lower(Strip(district)))>>

CoordsOfKeyStateOnly(key) ==
    IF \E k \in DOMAIN location_map : k[1] = key[1]
    THEN location_map[CHOOSE k \in DOMAIN location_map : k[1] = key[1]]
    ELSE DefaultCoords

CoordsOfKey(key) ==
    IF key \in DOMAIN location_map THEN location_map[key] ELSE DefaultCoords

map_location_to_coords_swapped(state, district) ==
    CoordsOfKey(LocationKey(district, state))

map_location_to_coords(state, district) ==
    CoordsOfKey(LocationKey(state, district))

(***************************************************************************)
(* Argument strings: a base spelling, re-cased and padded with whitespace  *)
(***************************************************************************)
\* longest run of whitespace put before or after a name
MaxPad == 1

PadChars == {" ", "\t"}

Pads == UNION {[1..k -> PadChars] : k \in 0..MaxPad}

UpperChar(c) ==
    IF \E u \in DOMAIN UpperToLower : UpperToLower[u] = c
    THEN CHOOSE u \in DOMAIN UpperToLower : UpperToLower[u] = c
    ELSE c

\* s with the characters at the positions in U in upper case
Recase(s, U) == [i \in 1..Len(s) |-> IF i \in U THEN UpperChar(s[i]) ELSE s[i]]

\* lower, Title and UPPER spellings of s
CaseForms(s) == {Recase(s, U) : U \in {{}, {1}, 1..Len(s)}}

Spellings(s) == {l \o c \o r : l \in Pads, c \in CaseForms(s), r \in Pads}

\* known keys, documented aliases, a key with an inner blank, the same with
\* two inner blanks, two known names that are no pair, and unknown names
BaseLocations ==
    { 
      <<<<"k", "a", "r", "n", "a", "t", "a", "k", "a">>,
        <<"b", "a", "n", "g", "a", "l", "o", "r", "e">>>>,
      <<<<"k", "a", "r", "n", "a", "t", "a", "k", "a">>,
        <<"b", "e", "n", "g", "a", "l", "u", "r", "u">>>>,
      <<<<"u", "t", "t", "a", "r", "a", "n", "c", "h", "a", "l">>,
        <<"d", "e", "h", "r", "a", "d", "u", "n">>>>,
      <<<<"u", "t", "t", "a", "r", "a", "k", "h", "a", "n", "d">>,
        <<"d", "e", "h", "r", "a", "d", "u", "n">>>>,
      <<<<"t", "a", "m", "i", "l", " ", "n", "a", "d", "u">>,
        <<"c", "h", "e", "n", "n", "a", "i">>>>,
      <<<<"t", "a", "m", "i", "l", " ", " ", "n", "a", "d", "u">>,
        <<"c", "h", "e", "n", "n", "a", "i">>>>,
      <<<<"g", "o", "a">>,
        <<"l", "e", "h">>>>,
      <<<<"a", "t", "l", "a", "n", "t", "i", "s">>,
        <<>>>> }

(***************************************************************************)
(* The gazetteer called on its own                                         *)
(***************************************************************************)
InitGeo ==
    /\ pc = "map_location_to_coords"
    /\ \E b \in BaseLocations :
          \E s \in Spellings(b[1]), d \in Spellings(b[2]) :
              req = [entry |-> "map_location_to_coords",
                     state_name |-> s, district_name |-> d]
    /\ coords = None
    /\ weather = None
    /\ http = None
    /\ clf = None
    /\ core = None
    /\ result = None
    /\ sent = <<>>
    /\ store = <<>>
    /\ peer = None

\* weather_service.py:51-249, also line 110 of the irrigation facade
MapLocationToCoords ==
    /\ pc = "map_location_to_coords"
    /\ coords' = map_location_to_coords(req.state_name, req.district_name)
    /\ pc' = IF req.entry = "map_location_to_coords"
             THEN "done" ELSE "get_openmeteo_weather"
    /\ result' = IF req.entry = "map_location_to_coords" THEN coords' ELSE result
    /\ UNCHANGED <<req, weather, http, clf, core, sent, store, peer>>

NextGeo == MapLocationToCoords

SpecGeo == InitGeo /\ [][NextGeo]_vars

(***************************************************************************)
(* Claims about the gazetteer                                              *)
(***************************************************************************)
\* the trimmed, lower-cased spelling of an argument
Normalized(s) == Lower(Strip(s))

NormalKey == <<Join(Normalized(req.state_name)), Join(Normalized(req.district_name))>>

GeoReturned == pc = "done" /\ req.entry = "map_location_to_coords"

\* C6: a (state, district) pair whose trimmed, lower-cased form is not a key
\* of location_map resolves to exactly (20.0, 78.0); the call returns a
\* coordinate pair, it never raises.
C6_UnknownLocationFallback ==
    GeoReturned /\ NormalKey \notin DOMAIN location_map
        => result = <<200000, 780000>>

\* a padded, re-cased spelling of names that are no key got the fallback
C6_Witness ==
    /\ GeoReturned
    /\ NormalKey = <<"goa", "leh">>
    /\ req.state_name # Normalized(req.state_name)
    /\ req.district_name # Normalized(req.district_name)
    /\ result = <<200000, 780000>>

\* alternate and new names of one place, as the comments of location_map
\* document them (weather_service.py:76-114, 190-194)
AliasKeys ==
    { <<<<"karnataka", "bangalore">>, <<"karnataka", "bengaluru">>>>,
      <<<<"karnataka", "belagavi">>, <<"karnataka", "belgaum">>>>,
      <<<<"karnataka", "ballari">>, <<"karnataka", "bellary">>>>,
      <<<<"karnataka", "dharwad">>, <<"karnataka", "dharwar">>>>,
      <<<<"karnataka", "hubballi">>, <<"karnataka", "hubli">>>>,
      <<<<"karnataka", "gulbarga">>, <<"karnataka", "kalaburagi">>>>,
      <<<<"karnataka", "tumkur">>, <<"karnataka", "tumkuru">>>>,
      <<<<"karnataka", "mysore">>, <<"karnataka", "mysuru">>>>,
      <<<<"karnataka", "kodagu">>, <<"karnataka", "coorg">>>>,
      <<<<"karnataka", "mangalore">>, <<"karnataka", "mangaluru">>>>,
      <<<<"karnataka", "davangere">>, <<"karnataka", "davanagere">>>>,
      <<<<"karnataka", "shimoga">>, <<"karnataka", "shivamogga">>>>,
      <<<<"karnataka", "bijapur">>, <<"karnataka", "vijayapura">>>>,
      <<<<"uttaranchal", "dehradun">>, <<"uttarakhand", "dehradun">>>>,
      <<<<"uttaranchal", "nainital">>, <<"uttarakhand", "nainital">>>> }

\* C7: the coordinate returned for any spelling is the one returned for the
\* trimmed, lower-cased spelling of the same names (invariance under letter
\* case and surrounding whitespace of both arguments), and a name of an
\* alias pair resolves to the coordinate of the other name of the pair.
C7_CaseTrimAliasInvariance ==
    GeoReturned =>
        /\ result = map_location_to_coords(Normalized(req.state_name),
                                           Normalized(req.district_name))
        /\ \A a \in AliasKeys :
               /\ a[1] \in DOMAIN location_map
               /\ a[2] \in DOMAIN location_map
               /\ CoordsOfKey(a[1]) = CoordsOfKey(a[2])
               /\ NormalKey \in {a[1], a[2]} => result = CoordsOfKey(a[1])

\* " KARNATAKA" / "Bengaluru\t" style spellings reached Bangalore's coordinate
C7_Witness ==
    /\ GeoReturned
    /\ NormalKey = <<"karnataka", "bengaluru">>
    /\ req.state_name # Normalized(req.state_name)
    /\ Head(req.district_name) \in Whitespace
    /\ result = <<129716, 775946>>

(***************************************************************************)
(* weather_service.get_openmeteo_weather                                   *)
(*                                                                         *)
(* One exchange with the forecast provider is a record:                    *)
(*   net     "ok", or the exception requests.get raises                    *)
(*   status  the HTTP status of the response                               *)
(*   parse   what r.json() finds: "invalid" text, a JSON "array", or a     *)
(*           JSON "object"                                                 *)
(*   keys    the keys of the object                                        *)
(*   fields  the keys of data["hourly"]                                    *)
(*   time, temps, hums, prec   the hourly series                           *)
(***************************************************************************)
HourlyFields == {"time", "temperature_2m", "relative_humidity_2m", "precipitation"}

\* longest hourly series the provider returns
MaxHours == 2

TempValues == {1800, 3100}
HumValues == {4000, 7500}
\* hourly precipitation readings; two of them sum to exactly 5 mm and 10 mm
PrecValues == {-100, 0, 500, 600}

SeqsUpTo(S, n) == UNION {[1..k -> S] : k \in 0..n}

Exchange(net, status, parse, keys, fields, temps, hums, prec) ==
    [net |-> net, status |-> status, parse |-> parse, keys |-> keys,
     fields |-> fields, time |-> [i \in 1..Len(temps) |-> i - 1],
     temps |-> temps, hums |-> hums, prec |-> prec]

\* bodies that are no forecast: not JSON, a JSON array, an object without
\* "hourly", an "hourly" object that lacks one series
BrokenBodies(status) ==
    {Exchange("ok", status, "invalid", {}, {}, <<>>, <<>>, <<>>),
     Exchange("ok", status, "array", {}, {}, <<>>, <<>>, <<>>),
     Exchange("ok", status, "object", {"error", "reason"}, {}, <<>>, <<>>, <<>>)}
    \cup {Exchange("ok", status, "object", {"hourly"}, HourlyFields \ {f},
                   <<1800>>, <<4000>>, <<600>>) : f \in HourlyFields}

\* a well-formed body: an object with all four hourly series
SeriesBody(status, temps, hums, prec) ==
    Exchange("ok", status, "object", {"hourly"}, HourlyFields, temps, hums, prec)

NetworkFailure(e) == Exchange(e, 0, "invalid", {}, {}, <<>>, <<>>, <<>>)

\* statuses of the final response: success, a redirection status that
\* requests hands back as it is (no Location to follow), client and server
\* errors
Statuses == {200, 304, 404, 500}

\* The exchanges tried.  A call of get_openmeteo_weather on its own meets
\* every exchange; as one step of a recommendation it meets a timeout, a
\* server error, and status 200 with one temperature and humidity reading
\* and every precipitation series (one reading at most for crops).
NetworkErrorsTried(entry) ==
    IF entry = "get_openmeteo_weather"
    THEN {"Timeout", "ConnectionError"} ELSE {"Timeout"}

BrokenTried(entry) ==
    IF entry = "get_openmeteo_weather"
    THEN UNION {BrokenBodies(s) : s \in Statuses}
    ELSE {Exchange("ok", 500, "invalid", {}, {}, <<>>, <<>>, <<>>)}

StatusesTried(entry) ==
    IF entry = "get_openmeteo_weather" THEN Statuses ELSE {200}

TempsTried(entry) ==
    IF entry = "get_openmeteo_weather"
    THEN SeqsUpTo(TempValues, MaxHours) ELSE {<<3100>>}

HumsTried(entry) ==
    IF entry = "get_openmeteo_weather"
    THEN SeqsUpTo(HumValues, MaxHours) ELSE {<<7500>>}

PrecTried(entry) ==
    IF entry = "recommend_crops"
    THEN SeqsUpTo(PrecValues, 1) ELSE SeqsUpTo(PrecValues, MaxHours)

RECURSIVE Sum(_)
\* sum(prec)
Sum(s) == IF s = <<>> THEN 0 ELSE Head(s) + Sum(Tail(s))

\* datetime.utcnow().isoformat()
UtcNow == "utcnow"

\* Response.raise_for_status() of requests: HTTPError for 4xx and 5xx
RaisesForStatus(status) == 400 <= status /\ status < 600

\* the exception lines 20-32 raise on the exchange x, None when none
FetchException(x) ==
    IF x.net # "ok" THEN x.net                                   \* line 20
    ELSE IF RaisesForStatus(x.status) THEN "HTTPError"           \* line 21
    ELSE IF x.parse = "invalid" THEN "JSONDecodeError"           \* line 22
    ELSE IF x.parse # "object" THEN "TypeError"                  \* line 24
    ELSE IF "hourly" \notin x.keys THEN "KeyError: 'hourly'"
    ELSE IF HourlyFields \ x.fields # {} THEN "KeyError"         \* 24-27
    ELSE IF x.temps = <<>> THEN "IndexError"                     \* line 30
    ELSE IF x.hums = <<>> THEN "IndexError"                      \* line 31
    ELSE None

SnapshotLastReading(x) ==
    [temperature |-> x.temps[Len(x.temps)],
     humidity |-> x.hums[Len(x.hums)],
     rain_24h |-> IF x.prec = <<>> THEN 0 ELSE x.prec[Len(x.prec)],
     timestamp |-> UtcNow]

\* lines 34-39
Snapshot(x) ==
    [temperature |-> x.temps[Len(x.temps)],
     humidity |-> x.hums[Len(x.hums)],
     rain_24h |-> Sum(x.prec),
     timestamp |-> UtcNow]

FallbackWithoutNote(e) ==
    [temperature |-> 2500, humidity |-> 6000, rain_24h |-> 0,
     timestamp |-> UtcNow]

\* lines 40-48
Fallback(e) ==
    [temperature |-> 2500, humidity |-> 6000, rain_24h |-> 0,
     timestamp |-> UtcNow, error |-> e]

\* a handler that keeps the values read before the exception
FallbackKeepingReadings(x) ==
    [temperature |-> IF x.temps # <<>> THEN x.temps[Len(x.temps)] ELSE 2500,
     humidity |-> 6000, rain_24h |-> 0,
     timestamp |-> UtcNow, error |-> FetchException(x)]

OnFetchException(x) == Fallback(FetchException(x))

get_openmeteo_weather(lat, lon, x) ==
    IF FetchException(x) = None THEN Snapshot(x) ELSE OnFetchException(x)

HttpRequestsWithRetry(lat, lon, x) ==
    IF FetchException(x) = None
    THEN <<[url |-> "https://api.open-meteo.com/v1/forecast",
            latitude |-> lat, longitude |-> lon]>>
    ELSE <<[url |-> "https://api.open-meteo.com/v1/forecast",
            latitude |-> lat, longitude |-> lon],
           [url |-> "https://api.open-meteo.com/v1/forecast",
            latitude |-> lat, longitude |-> lon]>>

\* lines 13-20: the requests one call issues, whatever the exchange x brings
HttpRequests(lat, lon, x) ==
    <<[url |-> "https://api.open-meteo.com/v1/forecast",
       latitude |-> lat, longitude |-> lon]>>

CoordInputs == {<<211939, 812740>>, DefaultCoords}

\* the hour of the day at which the call is made; the hourly series of the
\* provider begins at hour 0 of the day (forecast_days = 1, line 17)
HoursOfCall == 0..(MaxHours - 1)

InitWeather ==
    /\ pc = "get_openmeteo_weather"
    /\ req \in {[entry |-> "get_openmeteo_weather", hour |-> h] :
                    h \in HoursOfCall}
    /\ coords \in CoordInputs
    /\ weather = None
    /\ http = None
    /\ clf = None
    /\ core = None
    /\ result = None
    /\ sent = <<>>
    /\ store = <<>>
    /\ peer = None

\* the provider answered with the exchange x: lines 12-48
Fetched(x) ==
    /\ http' = x
    /\ sent' = sent \o HttpRequests(coords[1], coords[2], x)
    /\ weather' = get_openmeteo_weather(coords[1], coords[2], x)
    /\ pc' = CASE req.entry = "get_openmeteo_weather" -> "done"
               [] req.entry = "recommend_crops" -> "recommend_crops"
               [] OTHER -> "recommend_irrigation"
    /\ result' = IF req.entry = "get_openmeteo_weather" THEN weather' ELSE result
    /\ UNCHANGED <<req, coords, clf, core, store, peer>>

\* weather_service.py:8-48, also line 111 of the irrigation facade and line
\* 53 of recommend_crops
GetOpenmeteoWeather ==
    /\ pc = "get_openmeteo_weather"
    /\ \/ \E e \in NetworkErrorsTried(req.entry) : Fetched(NetworkFailure(e))
       \/ \E x \in BrokenTried(req.entry) : Fetched(x)
       \/ \E s \in StatusesTried(req.entry) :
             \E t \in TempsTried(req.entry), h \in HumsTried(req.entry),
                p \in PrecTried(req.entry) :
                 Fetched(SeriesBody(s, t, h, p))

NextWeather == GetOpenmeteoWeather

SpecWeather == InitWeather /\ [][NextWeather]_vars

(***************************************************************************)
(* Claims about the weather gateway                                        *)
(***************************************************************************)
WeatherReturned == pc = "done" /\ req.entry = "get_openmeteo_weather"

\* the failures of an exchange, read off the exchange itself
TimedOut(x) == x.net # "ok"
Non2xxStatus(x) == x.net = "ok" /\ x.status \notin 200..299
ErrorStatus(x) == x.net = "ok" /\ x.status \in 400..599
MalformedJson(x) == x.net = "ok" /\ x.parse = "invalid"
MissingField(x) ==
    /\ x.net = "ok"
    /\ x.parse # "invalid"
    /\ \/ x.parse # "object"
       \/ "hourly" \notin x.keys
       \/ HourlyFields \ x.fields # {}
\* the provider returned no hour at all
EmptyHourlySeries(x) ==
    /\ x.net = "ok" /\ x.parse = "object" /\ x.fields = HourlyFields
    /\ x.temps = <<>> /\ x.hums = <<>> /\ x.prec = <<>>

CompleteFallback(w) ==
    /\ DOMAIN w = {"temperature", "humidity", "rain_24h", "timestamp", "error"}
    /\ w.temperature = 2500
    /\ w.humidity = 6000
    /\ w.rain_24h = 0

C17_SingleAttempt ==
    WeatherReturned =>
        /\ Len(sent) <= 1
        /\ FetchException(http) # None =>
               /\ Len(sent) = 1
               /\ CompleteFallback(result)

\* the one attempt timed out and the fallback was returned
C17_Witness ==
    /\ WeatherReturned
    /\ http.net = "Timeout"
    /\ Len(sent) = 1
    /\ sent[1].latitude = coords[1] /\ sent[1].longitude = coords[2]
    /\ CompleteFallback(result)

RECURSIVE ReadingsTotal(_, _)
\* the first n readings of a series, added up
ReadingsTotal(series, n) ==
    IF n = 0 THEN 0 ELSE ReadingsTotal(series, n - 1) + series[n]

\* C20: a snapshot returned without an error note, from a precipitation
\* series of at least one reading, has rain_24h equal to the sum of every
\* reading of the series.
C20_RainIsSeriesSum ==
    (WeatherReturned /\ "error" \notin DOMAIN result /\ Len(http.prec) >= 1)
        => result.rain_24h = ReadingsTotal(http.prec, Len(http.prec))

\* two readings of which the last is not the total
C20_Witness ==
    /\ WeatherReturned
    /\ "error" \notin DOMAIN result
    /\ http.prec = <<500, 600>>
    /\ result.rain_24h = 1100

\* the places of the series whose time is the hour of the call
CurrentHourPlaces ==
    {i \in DOMAIN http.time : http.time[i] = req.hour}

\* C21: a snapshot returned without an error note carries the temperature
\* and the humidity the series give for the hour of the call, wherever that
\* hour lies in the series.
C21_CurrentHourReadings ==
    (WeatherReturned /\ "error" \notin DOMAIN result) =>
        \A i \in CurrentHourPlaces :
            /\ i <= Len(http.temps) => result.temperature = http.temps[i]
            /\ i <= Len(http.hums) => result.humidity = http.hums[i]

(***************************************************************************)
(* irrigation_service: moisture_to_water_mm and recommend_irrigation       *)
(***************************************************************************)
SOIL_FEEL_MAP ==
    "dry and crumbly" :> 20 @@ "slightly damp" :> 50 @@ "wet and muddy" :> 80

SoilFeelKeyAsGiven(soil_feel) == Join(soil_feel)

\* soil_feel.lower()
SoilFeelKey(soil_feel) == Join(Lower(soil_feel))

\* SOIL_FEEL_MAP.get(soil_feel.lower(), 0.45)
SoilFeelToMoisture(soil_feel) ==
    IF SoilFeelKey(soil_feel) \in DOMAIN SOIL_FEEL_MAP
    THEN SOIL_FEEL_MAP[SoilFeelKey(soil_feel)]
    ELSE 45

moisture_to_water_mm_inclusive(moisture_mean) ==
    IF moisture_mean <= 30 THEN 2000
    ELSE IF moisture_mean <= 50 THEN 1200
    ELSE IF moisture_mean <= 70 THEN 500
    ELSE 0

moisture_to_water_mm(moisture_mean) ==
    IF moisture_mean < 30 THEN 2000
    ELSE IF moisture_mean < 50 THEN 1200
    ELSE IF moisture_mean < 70 THEN 500
    ELSE 0

\* n / d rounded to the nearest integer, a tie to the even one: Python's
\* round() and the .1f format on a value that a float holds exactly
RoundHalfEven(n, d) ==
    LET q == n \div d
        r == n % d
    IN  IF 2 * r < d THEN q
        ELSE IF 2 * r > d THEN q + 1
        ELSE IF q % 2 = 0 THEN q ELSE q + 1

Truncate(n, d) == n \div d

\* round(x, 2) of the quotient n / d of two amounts in hundredths
Round2(n, d) == RoundHalfEven(Scale * n, d)

\* f"{x:.1f}", in tenths
Format1f(x) == RoundHalfEven(x, 10)

RainAdjustedInclusive(base_mm, rain) ==
    IF rain >= 1000
    THEN [mm |-> 0,
          reason |-> [text |-> "Heavy rain expected (>10mm), skipping irrigation.",
                      args |-> <<>>]]
    ELSE IF rain >= 500
    THEN [mm |-> base_mm \div 2,
          reason |-> [text |-> "Moderate rain expected ({:.1f}mm), reducing irrigation by 50%.",
                      args |-> <<Format1f(rain)>>]]
    ELSE [mm |-> base_mm,
          reason |-> [text |-> "No significant rain expected.", args |-> <<>>]]

\* lines 69-76; every base depth is an even number of hundredths
RainAdjusted(base_mm, rain) ==
    IF rain > 1000
    THEN [mm |-> 0,
          reason |-> [text |-> "Heavy rain expected (>10mm), skipping irrigation.",
                      args |-> <<>>]]
    ELSE IF rain > 500
    THEN [mm |-> base_mm \div 2,
          reason |-> [text |-> "Moderate rain expected ({:.1f}mm), reducing irrigation by 50%.",
                      args |-> <<Format1f(rain)>>]]
    ELSE [mm |-> base_mm,
          reason |-> [text |-> "No significant rain expected.", args |-> <<>>]]

DurationTruncated(base_mm, rate) ==
    IF rate > 0 THEN Truncate(Scale * base_mm, rate) ELSE 0

\* lines 79 and 87: round(base_mm / rate if rate > 0 else 0.0, 2)
DurationHours(base_mm, rate) ==
    IF rate > 0 THEN Round2(base_mm, rate) ELSE 0

IrrigateOnPredictionAlone(pred, base_mm) == pred # 0

\* line 83: bool(pred) and base_mm > 0
Irrigate(pred, base_mm) == pred # 0 /\ base_mm > 0

\* lines 60 and 62
ModelProbability(c) ==
    LET proba == IF c.ndim > 1 THEN c.predict_proba[1] ELSE c.predict_proba
    IN  IF Len(proba) > 1 THEN proba[2] ELSE 50

\* lines 92-96
IrrigationFailure(e) ==
    [success |-> FALSE, error |-> "Irrigation recommendation failed: " \o e]

\* what irrigation_model does on one call: it raises, or predict_proba
\* returns an array of ndim dimensions and predict a label
ClassifierOutcomes ==
    {[raises |-> "ValueError", kind |-> "ndarray", ndim |-> 0,
      predict_proba |-> <<>>, predict |-> 0]}
    \cup {[raises |-> None, kind |-> "ndarray", ndim |-> 2,
           predict_proba |-> <<p>>, predict |-> y] :
            p \in {<<30, 70>>, <<80, 20>>, <<100>>}, y \in {0, 1}}
    \cup {[raises |-> None, kind |-> "ndarray", ndim |-> 1,
           predict_proba |-> <<45, 55>>, predict |-> 1],
          \* a plain list: it has no ndim
          [raises |-> None, kind |-> "list", ndim |-> 0,
           predict_proba |-> <<45, 55>>, predict |-> 1],
          \* an array of no rows
          [raises |-> None, kind |-> "ndarray", ndim |-> 2,
           predict_proba |-> <<>>, predict |-> 1]}

\* the exception lines 59-62 raise on the classifier's answer c, None when
\* none
IrrigationException(c) ==
    IF c.raises # None THEN c.raises                             \* line 59
    ELSE IF c.kind # "ndarray" THEN "AttributeError"             \* line 60
    ELSE IF c.ndim > 1 /\ c.predict_proba = <<>> THEN "IndexError"
    ELSE None

\* line 92: except Exception as e
OnIrrigationException(e) == IrrigationFailure(e)

recommend_irrigation(soil_feel, application_rate_mm_per_h, forecast_rain_mm_24h, c) ==
    LET m == SoilFeelToMoisture(soil_feel)
        adj == RainAdjusted(moisture_to_water_mm(m), forecast_rain_mm_24h)
    IN  IF IrrigationException(c) # None
        THEN OnIrrigationException(IrrigationException(c))
        ELSE [success |-> TRUE,
              irrigate |-> Irrigate(c.predict, adj.mm),
              model_probability |-> ModelProbability(c),
              moisture_level |-> m,
              water_mm |-> Round2(adj.mm, Scale),
              duration_hours |-> DurationHours(adj.mm, application_rate_mm_per_h),
              reason_weather |-> adj.reason,
              application_rate_mm_per_h |-> application_rate_mm_per_h,
              soil_feel |-> soil_feel]

(***************************************************************************)
(* Arguments of the irrigation calls                                       *)
(***************************************************************************)
SoilFeelBases ==
    {
     <<"d", "r", "y", " ", "a", "n", "d", " ", "c", "r", "u", "m", "b", "l", "y">>,
     <<"d", "r", "y">>,
     <<"s", "l", "i", "g", "h", "t", "l", "y", " ", "d", "a", "m", "p">>,
     <<"w", "e", "t", " ", "a", "n", "d", " ", "m", "u", "d", "d", "y">>,
     <<"m", "o", "i", "s", "t">> }

\* every spelling of the descriptions, and one with a leading blank
SoilFeelInputs ==
    UNION {CaseForms(b) : b \in SoilFeelBases}
    \cup {<<" ">> \o b : b \in {s \in SoilFeelBases : s[1] = "w"}}

\* the spellings the request models document ("Dry and Crumbly")
SoilFeelTitled == {Recase(b, {1}) : b \in SoilFeelBases}

\* largest application rate, in whole mm/h
MaxRate == 8

RateInputs == {r * Scale : r \in -1..MaxRate}

\* forecast rain around the thresholds of 5 mm and 10 mm
RainInputs == {-100, 0, 200, 499, 500, 501, 700, 999, 1000, 1001, 1500}

\* moisture fractions 0.00 .. 1.00
MaxMoisture == 100

InitMoisture ==
    /\ pc = "moisture_to_water_mm"
    /\ req \in {[entry |-> "moisture_to_water_mm", moisture_mean |-> m] :
                m \in 0..MaxMoisture}
    /\ coords = None
    /\ weather = None
    /\ http = None
    /\ clf = None
    /\ core = None
    /\ result = None
    /\ sent = <<>>
    /\ store = <<>>
    /\ peer = None

\* irrigation_service.py:25-36
MoistureToWaterMm ==
    /\ pc = "moisture_to_water_mm"
    /\ result' = moisture_to_water_mm(req.moisture_mean)
    /\ pc' = "done"
    /\ UNCHANGED <<req, coords, weather, http, clf, core, sent, store, peer>>

NextMoisture == MoistureToWaterMm

SpecMoisture == InitMoisture /\ [][NextMoisture]_vars

InitAdvisor ==
    /\ pc = "recommend_irrigation"
    /\ req \in {[entry |-> "recommend_irrigation",
                 soil_feel |-> s,
                 application_rate_mm_per_h |-> a,
                 forecast_rain_mm_24h |-> r] :
                s \in SoilFeelInputs, a \in RateInputs, r \in RainInputs}
    /\ coords = None
    /\ weather = None
    /\ http = None
    /\ clf = None
    /\ core = None
    /\ result = None
    /\ sent = <<>>
    /\ store = <<>>
    /\ peer = None

\* the forecast_rain_mm_24h argument of the call: the caller's own, or the
\* facade's rain_24h = weather["rain_24h"] (lines 112 and 118)
ForecastRainPassed ==
    IF req.entry = "recommend_irrigation"
    THEN req.forecast_rain_mm_24h ELSE weather.rain_24h

\* irrigation_service.py:39-96, also line 115 of the facade, which passes
\* weather["rain_24h"] (line 112) as the forecast
RecommendIrrigation ==
    /\ pc = "recommend_irrigation"
    /\ \E c \in ClassifierOutcomes :
          /\ clf' = [raises |-> c.raises, kind |-> c.kind, ndim |-> c.ndim,
                     predict_proba |-> c.predict_proba, predict |-> c.predict,
                     forecast_rain_mm_24h |-> ForecastRainPassed]
          /\ core' = recommend_irrigation(
                         req.soil_feel, req.application_rate_mm_per_h,
                         ForecastRainPassed, c)
    /\ pc' = IF req.entry = "recommend_irrigation" THEN "done" ELSE "enrich"
    /\ result' = IF req.entry = "recommend_irrigation" THEN core' ELSE result
    /\ UNCHANGED <<req, coords, weather, http, sent, store, peer>>

NextAdvisor == RecommendIrrigation

SpecAdvisor == InitAdvisor /\ [][NextAdvisor]_vars

(***************************************************************************)
(* Claims about moisture_to_water_mm and recommend_irrigation              *)
(***************************************************************************)
AdvisorSucceeded ==
    pc = "done" /\ req.entry = "recommend_irrigation" /\ result.success

HeavyRainReason == "Heavy rain expected (>10mm), skipping irrigation."
ModerateRainReason == "Moderate rain expected ({:.1f}mm), reducing irrigation by 50%."
NoRainReason == "No significant rain expected."

\* C2: in a successful result irrigate is true exactly when the classifier's
\* binary prediction is truthy and the final, rain-adjusted depth is above 0;
\* with a final depth of 0 irrigate is false whatever the prediction.
C2_IrrigateIffPredictedAndDepth ==
    AdvisorSucceeded =>
        /\ result.irrigate <=> (clf.predict # 0 /\ result.water_mm > 0)
        /\ result.water_mm = 0 => ~result.irrigate

\* dry soil, a positive prediction, and heavy rain that zeroed the depth
C2_Witness ==
    /\ AdvisorSucceeded
    /\ clf.predict = 1
    /\ result.moisture_level = 20
    /\ req.forecast_rain_mm_24h > 1000
    /\ result.water_mm = 0
    /\ ~result.irrigate

\* C3: with forecast rain r the final depth is 0 with the heavy-rain reason
\* when r > 10, half the base depth with the moderate-rain reason when
\* 5 < r <= 10, and the base depth with the no-significant-rain reason when
\* r <= 5; r = 10 halves and r = 5 leaves the depth unchanged.
C3_RainAdjustment ==
    AdvisorSucceeded =>
        LET r == req.forecast_rain_mm_24h
            base == moisture_to_water_mm(result.moisture_level)
        IN  /\ r > 1000 =>
                /\ result.water_mm = 0
                /\ result.reason_weather.text = HeavyRainReason
            /\ (500 < r /\ r <= 1000) =>
                /\ 2 * result.water_mm = base
                /\ result.reason_weather.text = ModerateRainReason
            /\ r <= 500 =>
                /\ result.water_mm = base
                /\ result.reason_weather.text = NoRainReason

\* exactly 10 mm of rain on dry soil: 20 mm halved to 10 mm
C3_Witness ==
    /\ AdvisorSucceeded
    /\ req.forecast_rain_mm_24h = 1000
    /\ result.moisture_level = 20
    /\ result.water_mm = 1000
    /\ result.reason_weather.text = ModerateRainReason

MoistureReturned == pc = "done" /\ req.entry = "moisture_to_water_mm"

\* C4: moisture_to_water_mm(m) is 20 for m < 0.3, 12 for 0.3 <= m < 0.5,
\* 5 for 0.5 <= m < 0.7 and 0 for m >= 0.7.
C4_MoistureTiers ==
    MoistureReturned =>
        LET m == req.moisture_mean
        IN  /\ m < 30 => result = 2000
            /\ (30 <= m /\ m < 50) => result = 1200
            /\ (50 <= m /\ m < 70) => result = 500
            /\ m >= 70 => result = 0

\* the boundary 0.3 falls in the 12 mm tier
C4_Witness ==
    /\ MoistureReturned
    /\ req.moisture_mean = 30
    /\ result = 1200

\* C5 as the spec states it: duration_hours is the final depth divided by
\* the application rate when the rate is above 0, and 0 otherwise.
C5_AsClaimed ==
    AdvisorSucceeded =>
        LET rate == req.application_rate_mm_per_h
        IN  /\ rate > 0 => result.duration_hours * rate = Scale * result.water_mm
            /\ rate <= 0 => result.duration_hours = 0

\* C5 (amended): duration_hours is the final depth divided by the
\* application rate, rounded to two decimals (at most half a hundredth of an
\* hour away from the quotient), when the rate is above 0, and 0 when the
\* rate is zero or negative; the rate never makes the call fail.
C5_DurationRoundedQuotient ==
    pc = "done" /\ req.entry = "recommend_irrigation" =>
        LET rate == req.application_rate_mm_per_h
        IN  /\ IrrigationException(clf) = None => result.success
            /\ result.success =>
                LET err == result.duration_hours * rate - Scale * result.water_mm
                IN  /\ rate > 0 => (2 * err <= rate /\ -2 * err <= rate)
                    /\ rate <= 0 => result.duration_hours = 0

\* 20 mm at 3 mm/h: 6.67 h reported, not 20/3
C5_Witness ==
    /\ AdvisorSucceeded
    /\ req.application_rate_mm_per_h = 300
    /\ result.water_mm = 2000
    /\ result.duration_hours = 667

\* the soil-feel description in lower case
SoilFeelLowered == Join(Lower(req.soil_feel))

\* C10 as the spec states it: the moisture fraction is 0.2 for "dry", 0.5
\* for "slightly damp", 0.8 for "wet and muddy", whatever the letter case,
\* and 0.45 for every other string.
C10_AsClaimed ==
    AdvisorSucceeded =>
        result.moisture_level =
            CASE SoilFeelLowered = "dry" -> 20
              [] SoilFeelLowered = "slightly damp" -> 50
              [] SoilFeelLowered = "wet and muddy" -> 80
              [] OTHER -> 45

\* C10 (amended): the moisture fraction is 0.2 for "dry and crumbly", 0.5
\* for "slightly damp", 0.8 for "wet and muddy", whatever the letter case,
\* and 0.45 for every other string, "dry" included; the mapping never makes
\* the call fail.
C10_SoilFeelMoisture ==
    pc = "done" /\ req.entry = "recommend_irrigation" =>
        /\ IrrigationException(clf) = None => result.success
        /\ result.success =>
            result.moisture_level =
                CASE SoilFeelLowered = "dry and crumbly" -> 20
                  [] SoilFeelLowered = "slightly damp" -> 50
                  [] SoilFeelLowered = "wet and muddy" -> 80
                  [] OTHER -> 45

\* "DRY AND CRUMBLY" in capitals is read as 0.2
C10_Witness ==
    /\ AdvisorSucceeded
    /\ req.soil_feel = <<"D", "R", "Y", " ", "A", "N", "D", " ", "C", "R", "U", "M", "B", "L", "Y">>
    /\ result.moisture_level = 20

\* C24: a successful result with irrigate = true reports a water depth and
\* a duration that are both greater than 0, whatever the application rate
\* and the forecast rain.
C24_IrrigateHasDepthAndDuration ==
    (AdvisorSucceeded /\ result.irrigate) =>
        /\ result.water_mm > 0
        /\ result.duration_hours > 0

(***************************************************************************)
(* irrigation_service.recommend_irrigation_with_weather                    *)
(***************************************************************************)
\* the names bound in the module irrigation_service: its imports (lines
\* 1-8) and its definitions; appwrite_service is not imported
IrrigationModuleGlobals ==
    {"joblib", "np", "os", "Dict", "pd",
     "get_openmeteo_weather", "map_location_to_coords",
     "BASE_DIR", "IRRIGATION_MODEL_PATH", "irrigation_model", "SOIL_FEEL_MAP",
     "moisture_to_water_mm", "recommend_irrigation",
     "recommend_irrigation_with_weather"}

\* lines 131-135
FacadeFailure(e) ==
    [success |-> FALSE,
     error |-> "Weather-based irrigation recommendation failed: " \o e]

\* lines 121-123
Enriched(r, w, state_name, district_name) ==
    [k \in DOMAIN r \cup {"weather", "state", "district"} |->
        CASE k = "weather" -> w
          [] k = "state" -> state_name
          [] k = "district" -> district_name
          [] OTHER -> r[k]]

\* appwrite.py:56, log_data.update(...) on the dict the facade returns
Logged(r, user_id, farm_id) ==
    [k \in DOMAIN r \cup {"user_id", "farm_id"} |->
        CASE k = "user_id" -> user_id
          [] k = "farm_id" -> farm_id
          [] OTHER -> r[k]]

\* lines 121-135
FacadeReturn(r, w, state_name, district_name) ==
    LET e == Enriched(r, w, state_name, district_name)
    IN  IF ~e.success THEN e
        ELSE IF "appwrite_service" \notin IrrigationModuleGlobals
        THEN FacadeFailure("name 'appwrite_service' is not defined")
        ELSE Logged(e, "temp_user", "temp_farm")

FacadeLocations ==
    {[state |-> <<"C", "h", "h", "a", "t", "t", "i", "s", "g", "a", "r", "h">>,
      district |-> <<"D", "u", "r", "g">>],
     [state |-> <<"G", "o", "a">>,
      district |-> <<"L", "e", "h">>]}

InitFacade ==
    /\ pc = "map_location_to_coords"
    /\ req \in {[entry |-> "recommend_irrigation_with_weather",
                 soil_feel |-> s,
                 application_rate_mm_per_h |-> a,
                 state_name |-> l.state,
                 district_name |-> l.district] :
                s \in SoilFeelTitled, a \in RateInputs, l \in FacadeLocations}
    /\ coords = None
    /\ weather = None
    /\ http = None
    /\ clf = None
    /\ core = None
    /\ result = None
    /\ sent = <<>>
    /\ store = <<>>
    /\ peer = None

\* irrigation_service.py:121-135, after the calls of lines 110-119
RecommendIrrigationWithWeather ==
    /\ pc = "enrich"
    /\ result' = FacadeReturn(core, weather, req.state_name, req.district_name)
    /\ pc' = "done"
    /\ UNCHANGED <<req, coords, weather, http, clf, core, sent, store, peer>>

NextFacade ==
    \/ MapLocationToCoords
    \/ GetOpenmeteoWeather
    \/ RecommendIrrigation
    \/ RecommendIrrigationWithWeather

SpecFacade == InitFacade /\ [][NextFacade]_vars

FacadeReturned == pc = "done" /\ req.entry = "recommend_irrigation_with_weather"

\* C1: whenever the core recommend_irrigation call returned success=true,
\* recommend_irrigation_with_weather returns success=true with the same
\* recommendation fields plus weather, state and district; it returns
\* success=false only when the model invocation failed.
C1_FacadeKeepsCoreSuccess ==
    FacadeReturned =>
        /\ core.success =>
            /\ result.success
            /\ \A k \in DOMAIN core : result[k] = core[k]
            /\ result.weather = weather
            /\ result.state = req.state_name
            /\ result.district = req.district_name
        /\ ~result.success => IrrigationException(clf) # None

\* the facade has called recommend_irrigation
FacadeCalledCore ==
    /\ req.entry = "recommend_irrigation_with_weather"
    /\ pc \in {"enrich", "done"}

\* C22: the forecast rain recommend_irrigation_with_weather passes to
\* recommend_irrigation is never negative: a negative rain_24h of the
\* snapshot is passed as 0.
C22_RainPassedNonNegative ==
    FacadeCalledCore =>
        /\ clf.forecast_rain_mm_24h >= 0
        /\ weather.rain_24h < 0 => clf.forecast_rain_mm_24h = 0

(***************************************************************************)
(* crop_service.CropService.recommend_crops                                *)
(***************************************************************************)
SOIL_QUALITY_MAP ==
    "Poor" :> [N |-> 20, P |-> 10, K |-> 10] @@
    "Medium" :> [N |-> 50, P |-> 25, K |-> 25] @@
    "Rich" :> [N |-> 90, P |-> 40, K |-> 40]

SOIL_TYPE_MAP ==
    "Sandy" :> 650 @@ "Loam" :> 700 @@ "Clay" :> 750 @@ "Red" :> 600 @@
    "Black" :> 800 @@ "Laterite" :> 550 @@ "Alluvial" :> 720 @@ "Mixed" :> 680

\* lines 46-48
Npk(soil_quality) ==
    IF soil_quality \in DOMAIN SOIL_QUALITY_MAP
    THEN SOIL_QUALITY_MAP[soil_quality]
    ELSE SOIL_QUALITY_MAP["Medium"]

PhValDefaultAcidic(soil_type) ==
    IF soil_type \in DOMAIN SOIL_TYPE_MAP THEN SOIL_TYPE_MAP[soil_type] ELSE 650

\* line 49
PhVal(soil_type) ==
    IF soil_type \in DOMAIN SOIL_TYPE_MAP THEN SOIL_TYPE_MAP[soil_type] ELSE 700

Max(a, b) == IF a >= b THEN a ELSE b

SampleRainAsFetched(soil_type, soil_quality, state_name, w) ==
    << <<"N_req_kg_per_ha", Npk(soil_quality).N>>,
       <<"P_req_kg_per_ha", Npk(soil_quality).P>>,
       <<"K_req_kg_per_ha", Npk(soil_quality).K>>,
       <<"Temperature_C", w.temperature>>,
       <<"Humidity_%", w.humidity>>,
       <<"pH", PhVal(soil_type)>>,
       <<"Rainfall_mm", w.rain_24h>>,
       <<"State Name", state_name>> >>

\* lines 54-69: the row handed to the classifier, columns in dict order
Sample(soil_type, soil_quality, state_name, w) ==
    << <<"N_req_kg_per_ha", Npk(soil_quality).N>>,
       <<"P_req_kg_per_ha", Npk(soil_quality).P>>,
       <<"K_req_kg_per_ha", Npk(soil_quality).K>>,
       <<"Temperature_C", w.temperature>>,
       <<"Humidity_%", w.humidity>>,
       <<"pH", PhVal(soil_type)>>,
       <<"Rainfall_mm", Max(w.rain_24h, 0)>>,
       <<"State Name", state_name>> >>

Min(a, b) == IF a <= b THEN a ELSE b

\* zip(classes, proba), lines 80-83
RECURSIVE CropProbs(_, _)
CropProbs(classes, proba) ==
    IF classes = <<>> \/ proba = <<>> THEN <<>>
    ELSE <<[crop |-> Head(classes), probability |-> Head(proba)]>>
         \o CropProbs(Tail(classes), Tail(proba))

\* x put behind the entries of the sorted s that are at least as probable
RECURSIVE InsertByProbability(_, _)
InsertByProbability(x, s) ==
    IF s = <<>> THEN <<x>>
    ELSE IF Head(s).probability >= x.probability
    THEN <<Head(s)>> \o InsertByProbability(x, Tail(s))
    ELSE <<x>> \o s

\* list.sort(key=probability, reverse=True): descending and stable, equally
\* probable crops keep the order of classes_
RECURSIVE SortedByProbability(_)
SortedByProbability(s) ==
    IF s = <<>> THEN <<>>
    ELSE InsertByProbability(s[Len(s)],
                             SortedByProbability(SubSeq(s, 1, Len(s) - 1)))

\* s[:n]
Take(s, n) == SubSeq(s, 1, Min(n, Len(s)))

TopCropsCutBeforeSort(classes, proba) ==
    SortedByProbability(Take(CropProbs(classes, proba), 5))

\* lines 80-84 and 88
TopCrops(classes, proba) ==
    Take(SortedByProbability(CropProbs(classes, proba)), 5)

\* lines 101-105
CropFailure(e) ==
    [success |-> FALSE, error |-> "Crop recommendation failed: " \o e]

\* the exception lines 76-83 raise on the classifier's answer c, None when
\* none: the one predict_proba raises, the IndexError of proba[0] on an empty
\* array, the TypeError of zip over the scalar proba[0] of a flat array
CropException(c) ==
    IF c.raises # None THEN c.raises                             \* line 76
    ELSE IF c.predict_proba = <<>> THEN "IndexError"             \* line 77
    ELSE IF c.ndim = 1 THEN "TypeError"                          \* line 82
    ELSE None

OnCropExceptionValueErrorOnly(e) ==
    IF e = "ValueError" THEN CropFailure(e) ELSE [raised |-> e]

\* line 101: except Exception as e
OnCropException(e) == CropFailure(e)

recommend_crops(soil_type, soil_quality, state_name, district_name, w, c) ==
    IF CropException(c) # None
    THEN OnCropException(CropException(c))
    ELSE [success |-> TRUE,
          recommended_crops |-> TopCrops(c.classes, c.predict_proba[1]),
          soil_params |-> [soil_type |-> soil_type,
                           soil_quality |-> soil_quality,
                           N_req_kg_per_ha |-> Npk(soil_quality).N,
                           P_req_kg_per_ha |-> Npk(soil_quality).P,
                           K_req_kg_per_ha |-> Npk(soil_quality).K,
                           pH |-> PhVal(soil_type)],
          weather |-> w,
          state |-> state_name,
          district |-> district_name]

\* most classes the crop classifier was fit on
MaxClasses == 6

\* labels of crop_model.classes_, in the classifier's order
CropLabels ==
    <<"Bajra", "Cotton", "Jowar", "Maize", "Ragi", "Rice", "Sugarcane", "Wheat">>

\* probabilities in percent; equal ones occur
ProbValues == {5, 30, 60}

\* what crop_model does on one call: it raises, or predict_proba returns an
\* empty array, a flat array, or one row with a probability for each class
CropClassifierFailures ==
    {[raises |-> "ValueError", ndim |-> 0, classes |-> <<>>, predict_proba |-> <<>>],
     [raises |-> None, ndim |-> 2, classes |-> SubSeq(CropLabels, 1, 3),
      predict_proba |-> <<>>],
     [raises |-> None, ndim |-> 1, classes |-> SubSeq(CropLabels, 1, 3),
      predict_proba |-> <<30, 60, 5>>]}

CropClassifierRows(n) ==
    {[raises |-> None, ndim |-> 2, classes |-> SubSeq(CropLabels, 1, n),
      predict_proba |-> <<p>>] : p \in [1..n -> ProbValues]}

\* The answers tried for the request r: every row of up to MaxClasses
\* classes for the Loam / Medium request, one row of three classes for the
\* other requests, and every failure for all of them.
CropClassifierTried(r) ==
    CropClassifierFailures
    \cup (IF r.soil_type = "Loam" /\ r.soil_quality = "Medium"
             /\ r.district_name = <<"D", "u", "r", "g">>
          THEN UNION {CropClassifierRows(n) : n \in 1..MaxClasses}
          ELSE {[raises |-> None, ndim |-> 2,
                 classes |-> SubSeq(CropLabels, 1, 3),
                 predict_proba |-> << <<30, 60, 5>> >>]})

\* soil types and qualities asked for: every key of the two tables, and
\* strings that are no key (a key in another case included)
SoilTypeInputs ==
    {"Sandy", "Loam", "Clay", "Red", "Black", "Laterite", "Alluvial", "Mixed",
     "Peat", "loam"}

SoilQualityInputs == {"Poor", "Medium", "Rich", "Excellent", "medium"}

CropLocations ==
    {[state |-> <<"C", "h", "h", "a", "t", "t", "i", "s", "g", "a", "r", "h">>,
      district |-> <<"D", "u", "r", "g">>],
     [state |-> <<" ", "k", "a", "r", "n", "a", "t", "a", "k", "a">>,
      district |-> <<"M", "y", "s", "u", "r", "u">>]}

InitCrop ==
    /\ pc = "map_location_to_coords"
    /\ req \in {[entry |-> "recommend_crops",
                 soil_type |-> t, soil_quality |-> q,
                 state_name |-> l.state, district_name |-> l.district] :
                t \in SoilTypeInputs, q \in SoilQualityInputs,
                l \in CropLocations}
    /\ coords = None
    /\ weather = None
    /\ http = None
    /\ clf = None
    /\ core = None
    /\ result = None
    /\ sent = <<>>
    /\ store = <<>>
    /\ peer = None

\* crop_service.py:58-105, after the calls of lines 46-56
RecommendCrops ==
    /\ pc = "recommend_crops"
    /\ \E c \in CropClassifierTried(req) :
          /\ clf' = [raises |-> c.raises, ndim |-> c.ndim,
                     classes |-> c.classes,
                     predict_proba |-> c.predict_proba,
                     features |-> Sample(req.soil_type, req.soil_quality,
                                         req.state_name, weather)]
          /\ result' = recommend_crops(req.soil_type, req.soil_quality,
                                       req.state_name, req.district_name,
                                       weather, c)
    /\ pc' = "done"
    /\ UNCHANGED <<req, coords, weather, http, core, sent, store, peer>>

NextCrop ==
    \/ MapLocationToCoords
    \/ GetOpenmeteoWeather
    \/ RecommendCrops

SpecCrop == InitCrop /\ [][NextCrop]_vars

\* the two recommenders, each called on its own
InitRecommenders == InitAdvisor \/ InitCrop

NextRecommenders == NextAdvisor \/ NextCrop

SpecRecommenders == InitRecommenders /\ [][NextRecommenders]_vars

(***************************************************************************)
(* Claims about the crop ranking                                           *)
(***************************************************************************)
CropsReturned == pc = "done" /\ req.entry = "recommend_crops"

CropsSucceeded == CropsReturned /\ result.success

\* C9: recommended_crops has min(5, number of classes) entries, each a class
\* with the probability the classifier gave that class, no class twice, in
\* non-increasing order of probability, and every class left out is at most
\* as probable as every class kept.
C9_TopFiveRanking ==
    CropsSucceeded =>
        LET top == result.recommended_crops
            n == Len(clf.classes)
            p == clf.predict_proba[1]
            kept == {top[i].crop : i \in 1..Len(top)}
        IN  /\ Len(top) = Min(5, n)
            /\ Cardinality(kept) = Len(top)
            /\ \A i \in 1..Len(top) :
                   \E j \in 1..n : /\ clf.classes[j] = top[i].crop
                                   /\ p[j] = top[i].probability
            /\ \A i \in 1..(Len(top) - 1) :
                   top[i].probability >= top[i + 1].probability
            /\ \A j \in 1..n :
                   clf.classes[j] \notin kept =>
                       \A i \in 1..Len(top) : p[j] <= top[i].probability

\* six classes, the most probable being the sixth: it leads the five kept
C9_Witness ==
    /\ CropsSucceeded
    /\ Len(clf.classes) = 6
    /\ clf.predict_proba[1] = <<5, 30, 5, 30, 5, 60>>
    /\ Len(result.recommended_crops) = 5
    /\ result.recommended_crops[1] = [crop |-> "Rice", probability |-> 60]
    /\ result.recommended_crops[2] = [crop |-> "Cotton", probability |-> 30]

\* the value of column name in the feature row
Feature(row, name) == (CHOOSE i \in 1..Len(row) : row[i][1] = name)

FeatureOf(row, name) == row[Feature(row, name)][2]

\* the classifier returned one row of probabilities
ClassifierAnswered ==
    /\ clf.raises = None
    /\ clf.ndim = 2
    /\ Len(clf.predict_proba) = 1

TextureKeys ==
    {"Sandy", "Loam", "Clay", "Red", "Black", "Laterite", "Alluvial", "Mixed"}

FertilityKeys == {"Poor", "Medium", "Rich"}

\* what C11 says of one returned request: with the classifier answering,
\* the request succeeds, a fertility tier outside the table gives N=50,
\* P=25, K=25 and a texture outside the table gives pH 7.0, in the feature
\* row and in the echoed soil_params
SoilDefaultsApplied ==
    (CropsReturned /\ ClassifierAnswered) =>
        /\ result.success
        /\ req.soil_quality \notin FertilityKeys =>
               /\ FeatureOf(clf.features, "N_req_kg_per_ha") = 50
               /\ FeatureOf(clf.features, "P_req_kg_per_ha") = 25
               /\ FeatureOf(clf.features, "K_req_kg_per_ha") = 25
               /\ result.soil_params.N_req_kg_per_ha = 50
               /\ result.soil_params.P_req_kg_per_ha = 25
               /\ result.soil_params.K_req_kg_per_ha = 25
        /\ req.soil_type \notin TextureKeys =>
               /\ FeatureOf(clf.features, "pH") = 700
               /\ result.soil_params.pH = 700

\* C11 as the spec states it: the fertility table has 3 entries and the
\* texture-to-pH table has 7; a tier outside the table gives the Medium
\* triple, a texture outside the table gives pH 7.0, and no unrecognized
\* string fails the request.
C11_AsClaimed ==
    /\ Cardinality(DOMAIN SOIL_QUALITY_MAP) = 3
    /\ Cardinality(DOMAIN SOIL_TYPE_MAP) = 7
    /\ SoilDefaultsApplied

\* C11 (amended): the fertility table has 3 entries and the texture-to-pH
\* table has 8 (Sandy, Loam, Clay, Red, Black, Laterite, Alluvial, Mixed); a
\* tier outside the table gives the Medium triple N=50, P=25, K=25, a
\* texture outside the table gives pH 7.0, and no unrecognized string fails
\* the request.
C11_SoilProfileTotal ==
    /\ DOMAIN SOIL_QUALITY_MAP = FertilityKeys
    /\ DOMAIN SOIL_TYPE_MAP = TextureKeys
    /\ Cardinality(TextureKeys) = 8
    /\ SoilDefaultsApplied

\* neither string is a key of its table
C11_Witness ==
    /\ CropsSucceeded
    /\ req.soil_type = "Peat"
    /\ req.soil_quality = "Excellent"
    /\ result.soil_params.pH = 700
    /\ result.soil_params.N_req_kg_per_ha = 50

CropErrorMessages ==
    {"Crop recommendation failed: ValueError",
     "Crop recommendation failed: IndexError",
     "Crop recommendation failed: TypeError"}

IrrigationErrorMessages ==
    {"Irrigation recommendation failed: ValueError",
     "Irrigation recommendation failed: AttributeError",
     "Irrigation recommendation failed: IndexError"}

\* C12: whatever the weather fetch and the classifier do, recommend_crops
\* and recommend_irrigation return a dict: either success=true with the
\* payload and no error, or success=false with an error string and nothing
\* else; nothing is raised to the caller.
C12_NeverRaises ==
    pc = "done" =>
        /\ "success" \in DOMAIN result
        /\ IF result.success
           THEN /\ "error" \notin DOMAIN result
                /\ req.entry = "recommend_crops" =>
                       {"recommended_crops", "soil_params", "weather"}
                           \subseteq DOMAIN result
                /\ req.entry = "recommend_irrigation" =>
                       {"irrigate", "water_mm", "duration_hours"}
                           \subseteq DOMAIN result
           ELSE /\ DOMAIN result = {"success", "error"}
                /\ req.entry = "recommend_crops" =>
                       result.error \in CropErrorMessages
                /\ req.entry = "recommend_irrigation" =>
                       result.error \in IrrigationErrorMessages

\* the fetch timed out and predict_proba returned a flat array
C12_Witness ==
    /\ CropsReturned
    /\ http.net = "Timeout"
    /\ clf.raises = None /\ clf.ndim = 1
    /\ result = [success |-> FALSE,
                 error |-> "Crop recommendation failed: TypeError"]

\* C13: when the fetch fails and the classifier answers, recommend_crops
\* returns success=true, the feature row carries temperature 25.0, humidity
\* 60.0 and rainfall 0.0, and the failure shows only as the error note of
\* the echoed weather snapshot.
C13_FallbackWeatherStillRecommends ==
    (CropsReturned /\ FetchException(http) # None /\ ClassifierAnswered) =>
        /\ result.success
        /\ FeatureOf(clf.features, "Temperature_C") = 2500
        /\ FeatureOf(clf.features, "Humidity_%") = 6000
        /\ FeatureOf(clf.features, "Rainfall_mm") = 0
        /\ DOMAIN result = {"success", "recommended_crops", "soil_params",
                            "weather", "state", "district"}
        /\ "error" \in DOMAIN result.weather
        /\ result.weather.error = FetchException(http)

\* a server error, three classes ranked
C13_Witness ==
    /\ CropsSucceeded
    /\ http.status = 500
    /\ result.weather.error = "HTTPError"
    /\ Len(result.recommended_crops) = 3
    /\ FeatureOf(clf.features, "Temperature_C") = 2500

\* C14: for Loam / Medium / Chhattisgarh / Durg and a classifier returning
\* a non-empty probability row, the one weather request is for
\* (21.1939, 81.2740), the feature row carries N=50, P=25, K=25 and pH 7.0,
\* and the result is success=true with a non-empty ranked list.
C14_DurgScenario ==
    (/\ CropsReturned
     /\ req.soil_type = "Loam" /\ req.soil_quality = "Medium"
     /\ Join(req.state_name) = "Chhattisgarh"
     /\ Join(req.district_name) = "Durg"
     /\ ClassifierAnswered
     /\ Len(clf.predict_proba[1]) >= 1) =>
        /\ Len(sent) = 1
        /\ sent[1].latitude = 211939 /\ sent[1].longitude = 812740
        /\ FeatureOf(clf.features, "N_req_kg_per_ha") = 50
        /\ FeatureOf(clf.features, "P_req_kg_per_ha") = 25
        /\ FeatureOf(clf.features, "K_req_kg_per_ha") = 25
        /\ FeatureOf(clf.features, "pH") = 700
        /\ result.success
        /\ result.recommended_crops # <<>>

\* the scenario with live weather and two classes
C14_Witness ==
    /\ CropsSucceeded
    /\ req.soil_type = "Loam" /\ req.soil_quality = "Medium"
    /\ Join(req.district_name) = "Durg"
    /\ "error" \notin DOMAIN weather
    /\ coords = <<211939, 812740>>
    /\ Len(result.recommended_crops) = 2

\* the N, P, K of a fertility tier as the claims give them
TierTriple(tier) ==
    CASE tier = "Poor" -> <<20, 10, 10>>
      [] tier = "Rich" -> <<90, 40, 40>>
      [] OTHER -> <<50, 25, 25>>

\* C23: the row given to the classifier has the eight columns
\* N_req_kg_per_ha, P_req_kg_per_ha, K_req_kg_per_ha, Temperature_C,
\* Humidity_%, pH, Rainfall_mm, State Name in this order; N, P, K are those
\* of the fertility tier, temperature and humidity those of the snapshot,
\* Rainfall_mm is max(rain_24h, 0), never negative, and State Name is the
\* caller's state string as given.
C23_FeatureRow ==
    CropsReturned =>
        LET row == clf.features
        IN  /\ [i \in 1..Len(row) |-> row[i][1]] =
                   <<"N_req_kg_per_ha", "P_req_kg_per_ha", "K_req_kg_per_ha",
                     "Temperature_C", "Humidity_%", "pH", "Rainfall_mm",
                     "State Name">>
            /\ <<row[1][2], row[2][2], row[3][2]>> = TierTriple(req.soil_quality)
            /\ row[4][2] = weather.temperature
            /\ row[5][2] = weather.humidity
            /\ row[7][2] >= 0
            /\ row[7][2] = IF weather.rain_24h > 0 THEN weather.rain_24h ELSE 0
            /\ row[8][2] = req.state_name

\* a negative rain total and a state written with a leading blank
C23_Witness ==
    /\ CropsSucceeded
    /\ weather.rain_24h = -100
    /\ clf.features[7] = <<"Rainfall_mm", 0>>
    /\ req.state_name[1] = " "
    /\ clf.features[8][2] = req.state_name
    /\ req.soil_quality = "Poor"
    /\ clf.features[1] = <<"N_req_kg_per_ha", 20>>

(***************************************************************************)
(* The endpoints of main.py and main1.py                                   *)
(*                                                                         *)
(* A run serves requests with one set of inputs against one provider       *)
(* answer and one answer of each classifier, fixed at the start, so that   *)
(* the responses of the three endpoints can be compared.  result collects  *)
(* the responses each endpoint has returned, core the dict each            *)
(* recommender constructed last.                                           *)
(***************************************************************************)
\* most forecast requests of one run
MaxRequests == 4

\* databases.create_document returns, or raises
StoreOutcomes == {None, "AppwriteException"}

OnStoreExceptionPropagated(log_data, e) == [raised |-> e]

\* appwrite.py:64-65 and 77-78: except Exception, print, return None; the
\* caller goes on with the dict it passed
OnStoreException(log_data, e) == log_data

\* appwrite.py:58-63 and 71-76: the document handed to create_document
StoreWrite(collection, log_data, user_id, farm_id, e) ==
    [collection |-> collection,
     data |-> Logged(log_data, user_id, farm_id),
     raises |-> e]

\* appwrite.py:54-65 and 67-78: the caller's dict after the call returned
AfterLogging(log_data, user_id, farm_id, e) ==
    IF e = None
    THEN Logged(log_data, user_id, farm_id)
    ELSE OnStoreException(Logged(log_data, user_id, farm_id), e)

\* main.py:124, req.farm_id or "no_farm"
FarmIdOrDefault(farm_id) ==
    IF farm_id = None \/ farm_id = "" THEN "no_farm" ELSE farm_id

\* the snapshot the services get for the request r when the provider
\* answers x
WeatherFor(r, x) ==
    LET c == map_location_to_coords(r.state_name, r.district_name)
    IN  get_openmeteo_weather(c[1], c[2], x)

\* CropService.recommend_crops as the endpoints call it
CropServiceResult(r, x, cc) ==
    recommend_crops(r.soil_type, r.soil_quality, r.state_name,
                    r.district_name, WeatherFor(r, x), cc)

\* irrigation_service.py:114-119, the dict recommend_irrigation constructs
IrrigationCoreResult(r, x, ic) ==
    recommend_irrigation(r.soil_feel, r.application_rate,
                         WeatherFor(r, x).rain_24h, ic)

\* recommend_irrigation_with_weather as the endpoints call it
IrrigationFacadeResult(r, x, ic) ==
    FacadeReturn(IrrigationCoreResult(r, x, ic), WeatherFor(r, x),
                 r.state_name, r.district_name)

EndpointExchanges ==
    {NetworkFailure("Timeout"),
     SeriesBody(200, <<3100>>, <<7500>>, <<600>>)}

EndpointCropAnswers ==
    {[raises |-> "ValueError", ndim |-> 0, classes |-> <<>>, predict_proba |-> <<>>],
     [raises |-> None, ndim |-> 2, classes |-> SubSeq(CropLabels, 1, 3),
      predict_proba |-> << <<30, 60, 5>> >>]}

EndpointIrrigationAnswers ==
    {[raises |-> "ValueError", kind |-> "ndarray", ndim |-> 0,
      predict_proba |-> <<>>, predict |-> 0],
     [raises |-> None, kind |-> "ndarray", ndim |-> 2,
      predict_proba |-> << <<30, 70>> >>, predict |-> 1]}

InitEndpoints ==
    /\ pc = "endpoints"
    /\ req \in {[entry |-> "endpoints", app |-> a,
                 soil_type |-> "Loam", soil_quality |-> q,
                 soil_feel |-> <<"D", "r", "y">>,
                 application_rate |-> 5 * Scale,
                 state_name |-> <<"C", "h", "h", "a", "t", "t", "i", "s",
                                  "g", "a", "r", "h">>,
                 district_name |-> <<"D", "u", "r", "g">>,
                 farm_id |-> f] :
                a \in {"main", "main1"}, q \in {"Medium", "Excellent"},
                f \in {None, "farm-1"}}
    /\ coords = None
    /\ weather = None
    /\ http \in EndpointExchanges
    /\ clf \in [crop : EndpointCropAnswers,
                irrigation : EndpointIrrigationAnswers]
    /\ core = [crop |-> None, irrigation |-> None]
    /\ result = [crop |-> {}, irrigation |-> {}, combined |-> {}]
    /\ sent = <<>>
    /\ store = <<>>
    /\ peer = None

\* the request the one call of get_openmeteo_weather issues
EndpointFetch ==
    LET c == map_location_to_coords(req.state_name, req.district_name)
    IN  HttpRequests(c[1], c[2], http)

\* main.py:103-113 and main1.py crop_recommend
CropRecommend ==
    /\ pc = "endpoints"
    /\ Len(sent) + 1 <= MaxRequests
    /\ LET constructed == CropServiceResult(req, http, clf.crop)
       IN  /\ core' = [core EXCEPT !.crop = constructed]
           /\ IF req.app = "main"
              THEN \E e \in StoreOutcomes :
                      /\ store' = Append(store,
                             StoreWrite("crop_prediction", constructed,
                                        "temp_user", "no_farm", e))
                      /\ result' = [result EXCEPT !.crop = @ \cup
                             {AfterLogging(constructed, "temp_user",
                                           "no_farm", e)}]
              ELSE /\ store' = store
                   /\ result' = [result EXCEPT !.crop = @ \cup {constructed}]
    /\ coords' = map_location_to_coords(req.state_name, req.district_name)
    /\ weather' = WeatherFor(req, http)
    /\ sent' = sent \o EndpointFetch
    /\ UNCHANGED <<pc, req, http, clf, peer>>

\* main.py:115-125 and main1.py irrigation_recommend
IrrigationRecommend ==
    /\ pc = "endpoints"
    /\ Len(sent) + 1 <= MaxRequests
    /\ LET returned == IrrigationFacadeResult(req, http, clf.irrigation)
       IN  /\ core' = [core EXCEPT !.irrigation =
                          IrrigationCoreResult(req, http, clf.irrigation)]
           /\ IF req.app = "main"
              THEN \E e \in StoreOutcomes :
                      /\ store' = Append(store,
                             StoreWrite("irrigation_logs", returned,
                                        "temp_user",
                                        FarmIdOrDefault(req.farm_id), e))
                      /\ result' = [result EXCEPT !.irrigation = @ \cup
                             {AfterLogging(returned, "temp_user",
                                           FarmIdOrDefault(req.farm_id), e)}]
              ELSE /\ store' = store
                   /\ result' = [result EXCEPT !.irrigation = @ \cup {returned}]
    /\ coords' = map_location_to_coords(req.state_name, req.district_name)
    /\ weather' = WeatherFor(req, http)
    /\ sent' = sent \o EndpointFetch
    /\ UNCHANGED <<pc, req, http, clf, peer>>

\* main.py:127-141 and main1.py combined_recommend: both services, one
\* fetch each, no logging
CombinedRecommend ==
    /\ pc = "endpoints"
    /\ Len(sent) + 2 <= MaxRequests
    /\ core' = [crop |-> CropServiceResult(req, http, clf.crop),
                irrigation |-> IrrigationCoreResult(req, http, clf.irrigation)]
    /\ result' = [result EXCEPT !.combined = @ \cup
          {[crop_recommendation |-> CropServiceResult(req, http, clf.crop),
            irrigation_recommendation |->
                IrrigationFacadeResult(req, http, clf.irrigation)]}]
    /\ coords' = map_location_to_coords(req.state_name, req.district_name)
    /\ weather' = WeatherFor(req, http)
    /\ sent' = sent \o EndpointFetch \o EndpointFetch
    /\ UNCHANGED <<pc, req, http, clf, store, peer>>

NextEndpoints ==
    \/ CropRecommend
    \/ IrrigationRecommend
    \/ CombinedRecommend

SpecEndpoints == InitEndpoints /\ [][NextEndpoints]_vars

(***************************************************************************)
(* Claims about the endpoints                                              *)
(***************************************************************************)
\* C15: the combined endpoint's crop_recommendation and
\* irrigation_recommendation equal the responses the crop endpoint and the
\* irrigation endpoint of the same application return for the same inputs
\* and the same provider and classifier answers.
C15_CombinedEqualsIndependent ==
    \A r \in result.combined :
        /\ \A c \in result.crop : r.crop_recommendation = c
        /\ \A i \in result.irrigation : r.irrigation_recommendation = i

\* C16: in main.py the crop and irrigation endpoints return one and the
\* same response whether create_document returns or raises, and that
\* response is a result dict, never an exception of the logging call.
C16_StoreOutcomeInvisible ==
    req.app = "main" =>
        /\ Cardinality(result.crop) <= 1
        /\ Cardinality(result.irrigation) <= 1
        /\ \A r \in result.crop \cup result.irrigation :
               "success" \in DOMAIN r

\* the crop endpoint served twice, the write raising once and returning once
C16_Witness ==
    /\ req.app = "main"
    /\ \E i, j \in 1..Len(store) :
          /\ store[i].collection = "crop_prediction"
          /\ store[j].collection = "crop_prediction"
          /\ store[i].raises = None
          /\ store[j].raises = "AppwriteException"
    /\ Cardinality(result.crop) = 1
    /\ \E i, j \in 1..Len(store) :
          /\ store[i].collection = "irrigation_logs"
          /\ store[j].collection = "irrigation_logs"
          /\ store[i].raises = None
          /\ store[j].raises = "AppwriteException"
    /\ Cardinality(result.irrigation) = 1

\* C19: the dict a recommender constructed is the response, field for
\* field: the crop endpoint returns what recommend_crops constructed, and
\* the irrigation endpoint, when recommend_irrigation constructed a failure
\* that the facade hands on, returns that failure unchanged.
C19_ConstructedResultUntouched ==
    /\ \A r \in result.crop : r = core.crop
    /\ \A r \in result.irrigation :
           ~core.irrigation.success => r = core.irrigation

\* C25: every result handed to log_crop_prediction or log_irrigation has
\* success = true; a result with success = false is never written.
C25_OnlySuccessLogged ==
    \A i \in 1..Len(store) : store[i].data.success

(***************************************************************************)
(* Two requests served concurrently                                        *)
(*                                                                         *)
(* The request that is running owns pc .. result; the other one is         *)
(* suspended in peer.  A context switch can happen between any two steps.  *)
(* sent and store are the outside world, common to both.                   *)
(***************************************************************************)
Frame ==
    [pc |-> pc, req |-> req, coords |-> coords, weather |-> weather,
     http |-> http, clf |-> clf, core |-> core, result |-> result]

\* a request that has not begun
NewFrame(r) ==
    [pc |-> "map_location_to_coords", req |-> r, coords |-> None,
     weather |-> None, http |-> None, clf |-> None, core |-> None,
     result |-> None]

FrameLocalsSharingWeather ==
    {"pc", "req", "coords", "http", "clf", "core", "result"}

\* what belongs to one call: its arguments and the local variables of
\* recommend_crops, recommend_irrigation_with_weather, recommend_irrigation,
\* get_openmeteo_weather and map_location_to_coords (location_map is built
\* inside the call); the modules keep nothing else but the loaded models
FrameLocals ==
    {"pc", "req", "coords", "weather", "http", "clf", "core", "result"}

\* the value under name after a switch, for the side that had running
Switched(name, running, suspended) ==
    IF name \in FrameLocals THEN suspended ELSE running

ConcurrentCropRequests ==
    {[entry |-> "recommend_crops", soil_type |-> "Peat", soil_quality |-> q,
      state_name |-> <<"C", "h", "h", "a", "t", "t", "i", "s", "g", "a", "r", "h">>,
      district_name |-> <<"D", "u", "r", "g">>] : q \in {"Rich", "Excellent"}}

ConcurrentIrrigationRequests ==
    {[entry |-> "recommend_irrigation_with_weather",
      soil_feel |-> <<"D", "r", "y">>,
      application_rate_mm_per_h |-> 5 * Scale,
      state_name |-> <<"G", "o", "a">>,
      district_name |-> <<"L", "e", "h">>]}

InitConcurrent ==
    /\ pc = "map_location_to_coords"
    /\ req \in ConcurrentCropRequests
    /\ coords = None
    /\ weather = None
    /\ http = None
    /\ clf = None
    /\ core = None
    /\ result = None
    /\ sent = <<>>
    /\ store = <<>>
    /\ peer \in {NewFrame(r) :
                    r \in ConcurrentCropRequests \cup ConcurrentIrrigationRequests}

\* the worker threads of the server: the running request is suspended and
\* the other one goes on
ContextSwitch ==
    /\ pc' = Switched("pc", pc, peer.pc)
    /\ req' = Switched("req", req, peer.req)
    /\ coords' = Switched("coords", coords, peer.coords)
    /\ weather' = Switched("weather", weather, peer.weather)
    /\ http' = Switched("http", http, peer.http)
    /\ clf' = Switched("clf", clf, peer.clf)
    /\ core' = Switched("core", core, peer.core)
    /\ result' = Switched("result", result, peer.result)
    /\ peer' = [pc |-> Switched("pc", peer.pc, pc),
                req |-> Switched("req", peer.req, req),
                coords |-> Switched("coords", peer.coords, coords),
                weather |-> Switched("weather", peer.weather, weather),
                http |-> Switched("http", peer.http, http),
                clf |-> Switched("clf", peer.clf, clf),
                core |-> Switched("core", peer.core, core),
                result |-> Switched("result", peer.result, result)]
    /\ UNCHANGED <<sent, store>>

NextConcurrent ==
    \/ MapLocationToCoords
    \/ GetOpenmeteoWeather
    \/ RecommendCrops
    \/ RecommendIrrigation
    \/ RecommendIrrigationWithWeather
    \/ ContextSwitch

SpecConcurrent == InitConcurrent /\ [][NextConcurrent]_vars

(***************************************************************************)
(* Claims about concurrent requests                                        *)
(***************************************************************************)
\* the result of the request r served alone, the provider answering x and
\* the classifier c
AloneResult(r, x, c) ==
    LET w == WeatherFor(r, x)
    IN  IF r.entry = "recommend_crops"
        THEN recommend_crops(r.soil_type, r.soil_quality, r.state_name,
                             r.district_name, w, c)
        ELSE FacadeReturn(
                 recommend_irrigation(r.soil_feel, r.application_rate_mm_per_h,
                                      w.rain_24h, c),
                 w, r.state_name, r.district_name)

\* a finished request holds the result of its own inputs and answers
OwnResultOnly(f) ==
    f.pc = "done" => f.result = AloneResult(f.req, f.http, f.clf)

\* C18: however the steps of two concurrent requests interleave, each
\* request's result is the one it produces alone with the same provider and
\* classifier answers: nothing another request wrote has gone into it.
C18_InterleavingInvisible == OwnResultOnly(Frame) /\ OwnResultOnly(peer)

\* the suspended request fetched first and is not finished; the running
\* one fetched after it, got another snapshot, and has finished
C18_Witness ==
    /\ pc = "done"
    /\ peer.pc = "enrich"
    /\ Len(sent) = 2
    /\ sent[1].latitude = peer.coords[1]
    /\ sent[2].latitude = coords[1]
    /\ coords # peer.coords
    /\ weather # peer.weather
    /\ result.success

====
